---- MODULE Spec2Model ----
(***************************************************************************)
(* Model of geocode_bulk.py: the checkpointed bulk geocoding run of        *)
(* BulkGeocoder.process_csv, the files it reads and writes (input table,   *)
(* output table, <output>.checkpoint) and the provider outcome per row.    *)
(*                                                                         *)
(* One behaviour is a sequence of invocations of the program on the same   *)
(* input table and output path; an invocation may be interrupted at any    *)
(* step (KeyboardInterrupt, caught in main) and a later one started with   *)
(* or without --resume and with its own --chunk-size.                      *)
(***************************************************************************)
EXTENDS Integers, Sequences, FiniteSets, TLC

\* ------------------------------------------------------------- bounds
NumRows == 3
MaxChunk == 2

\* ----------------------------------------------------- program constants
ProgressEvery == 100    \* "if (i + 1) % 100 == 0"
DefaultChunkSize == 1000    \* "chunk_size: int = 1000", "default=1000"

\* -------------------------------------------------------------- values
None == "None"          \* Python None / pandas NaN
NoCol == "NoColumn"     \* the column is not in the loaded table

Rows == 1..NumRows

\* What an HTTP exchange with a provider can come back as.
Responses == {"found", "empty", "error_status", "transport", "malformed"}

\* --------------------------------------------------------- the provider
\* Geocoder.geocode of the three providers: a found result is returned as
\* (lat, lng, formatted); an empty result list or a status other than OK
\* raises ValueError; requests.RequestException (timeout, connection error,
\* raise_for_status) is re-raised as ValueError; a response without the
\* expected keys raises KeyError out of the try block.
Geocode(resp) ==
    CASE resp = "found"        -> [exc |-> "none", lat |-> "lat", lng |-> "lng",
                                   formatted |-> "fmt"]
      [] resp = "empty"        -> [exc |-> "ValueError", lat |-> None, lng |-> None,
                                   formatted |-> None]
      [] resp = "error_status" -> [exc |-> "ValueError", lat |-> None, lng |-> None,
                                   formatted |-> None]
      [] resp = "transport"    -> [exc |-> "ValueError", lat |-> None, lng |-> None,
                                   formatted |-> None]
      [] resp = "malformed"    -> [exc |-> "KeyError", lat |-> None, lng |-> None,
                                   formatted |-> None]

\* ------------------------------------------------------------ the tables
\* A row of the input table as pd.read_csv loads it: the address column
\* (NaN when the field is empty) and the four output columns, which the
\* input may or may not carry.
StaleRow(addr, status) ==
    [address |-> addr, latitude |-> "lat_old", longitude |-> "lng_old",
     geocode_status |-> status,
     geocode_address |-> IF status = "success" THEN "fmt_old" ELSE None]

BlankRow(addr, v) ==
    [address |-> addr, latitude |-> v, longitude |-> v,
     geocode_status |-> v, geocode_address |-> v]

InputRow(addr, carried) ==
    IF carried \in {"success", "failed"} THEN StaleRow(addr, carried)
    ELSE BlankRow(addr, carried)

\* What the output columns of the input file carry: the columns are not in
\* the file; they are there and empty; every row carries an earlier success;
\* every row carries an earlier failure; odd rows a success, even rows a
\* failure.
Carried(kind, r) ==
    CASE kind = "nocolumns" -> NoCol
      [] kind = "blank"     -> None
      [] kind = "success"   -> "success"
      [] kind = "failed"    -> "failed"
      [] kind = "mixed"     -> IF r % 2 = 1 THEN "success" ELSE "failed"

CarriedKinds == {"nocolumns", "blank", "success", "failed", "mixed"}

\* The input tables of the model: every pattern of present / empty
\* addresses, with each kind of carried output columns.
InputTables ==
    { [r \in Rows |-> InputRow(a[r], Carried(kind, r))] :
        a \in [Rows -> {None, "addr"}], kind \in CarriedKinds }

\* --------------------------------------------------- the address builder
\* process_csv, "Build addresses", single address column configured: the
\* column's value when it is not NaN, otherwise None.
BuildAddress(row) ==
    IF row.address # None THEN row.address ELSE None

Addresses(table) == [r \in Rows |-> BuildAddress(table[r])]

\* valid_indices = [i for i, addr in enumerate(addresses) if addr]
ValidIndices(addrs) ==
    SelectSeq([r \in Rows |-> r], LAMBDA r : addrs[r] # None)

\* "Initialize output columns": a column is added, all None, only when the
\* loaded table does not have it; a column it has is left as loaded.
InitColumn(v) == IF v = NoCol THEN None ELSE v

InitColumns(table) ==
    [r \in Rows |->
        [address         |-> table[r].address,
         latitude        |-> InitColumn(table[r].latitude),
         longitude       |-> InitColumn(table[r].longitude),
         geocode_status  |-> InitColumn(table[r].geocode_status),
         geocode_address |-> InitColumn(table[r].geocode_address)]]

\* df['geocode_status'].eq(status).sum(): over every row of the frame.
CountStatus(table, status) ==
    Cardinality({r \in Rows : table[r].geocode_status = status})

\* --------------------------------------------------------------- files
AbsentFile == [exists |-> FALSE, rows |-> <<>>]
TruncatedTable == [exists |-> TRUE, rows |-> <<>>]
WrittenTable(table) == [exists |-> TRUE, rows |-> table]

NoCheckpoint == [state |-> "absent", last_processed |-> 0]
PartialCheckpoint == [state |-> "partial", last_processed |-> 0]
KeylessCheckpoint == [state |-> "nokey", last_processed |-> 0]
CheckpointRecord(k) == [state |-> "record", last_processed |-> k]

\* ---------------------------------------------------------------- state
VARIABLES
    input,      \* the input table file (never written by the program)
    outFile,    \* the output table file
    ckptFile,   \* the file <output>.checkpoint
    pc,         \* where the current invocation is
    err,        \* why the invocation ended with exit status 1
    resume,     \* --resume
    chunk_size, \* --chunk-size
    df,         \* the data frame of the invocation
    start_idx,
    i,          \* loop variable of "for i in range(start_idx, ...)"
    stats,
    calls,      \* positions passed to geocoder.geocode by this invocation
    lastExc,    \* what the last geocode call raised ("none": it returned)
    prior,      \* the output table on disk when the invocation started
    written,    \* the last_processed values this invocation has dumped
    printed     \* what the last loop iteration printed

\* The rate limiter of the provider instance (Geocoder._rate_limit).
VARIABLES
    clock,              \* time.time()
    last_request_time,  \* self.last_request_time
    rl_pc,              \* where the current call of _rate_limit is
    elapsed,            \* the local elapsed of the call
    wake_at,            \* when time.sleep returns at the earliest
    returns             \* the times at which the last two calls returned

\* The address builder applied to one row ("Build addresses").
VARIABLES
    row,        \* the row: its address, street, city, state and zip cells
    columns,    \* the column arguments: which of them are configured
    address,    \* the entry appended to addresses for the row
    column_rest,\* what the other lines of the file hold in a column of digits
    ab_pc

mainVars == <<input, outFile, ckptFile, pc, err, resume, chunk_size, df, start_idx,
              i, stats, calls, lastExc, prior, written, printed>>
limiterVars == <<clock, last_request_time, rl_pc, elapsed, wake_at, returns>>
builderVars == <<row, columns, address, column_rest, ab_pc>>

vars == <<mainVars, limiterVars, builderVars>>

valid_indices == ValidIndices(Addresses(input))

NoStats == [total |-> 0, processed |-> 0, success |-> 0, failed |-> 0]

Ended == {"idle", "done", "fatal", "interrupted"}
Running == {"loop", "save_table", "save_table_w", "save_ckpt", "save_ckpt_w",
            "final_table", "final_table_w", "remove_ckpt", "summary"}

\* The rate limiter and the address builder have specifications of their
\* own (SpecRate, SpecAddr); in the others they are left aside.
LimiterParked ==
    /\ clock = 0
    /\ last_request_time = 0
    /\ rl_pc = "parked"
    /\ elapsed = 0
    /\ wake_at = 0
    /\ returns = <<>>

BuilderParked ==
    /\ row = <<>>
    /\ columns = {}
    /\ address = None
    /\ column_rest = "text"
    /\ ab_pc = "parked"

\* The file system the program is first started on: some input table, no
\* output table, and no checkpoint or one left there that is a JSON object
\* without the key last_processed.
Init ==
    /\ input \in InputTables
    /\ outFile = AbsentFile
    /\ ckptFile \in {NoCheckpoint, KeylessCheckpoint}
    /\ pc = "idle"
    /\ err = "none"
    /\ resume = FALSE
    /\ chunk_size = 1
    /\ df = input
    /\ start_idx = 0
    /\ i = 0
    /\ stats = NoStats
    /\ calls = <<>>
    /\ lastExc = "none"
    /\ prior = AbsentFile
    /\ written = <<>>
    /\ printed = "none"
    /\ LimiterParked
    /\ BuilderParked


\* ------------------------------------------------ pieces of process_csv
\* (Variant: the resumed run starts one position early and queries the
\* last checkpointed row again.)
ResolveStartOneEarly(r, ckpt) ==
    IF r /\ ckpt.state # "absent"
    THEN CASE ckpt.state = "partial" -> [fatal |-> TRUE,  start |-> 0]
           [] ckpt.state = "nokey"   -> [fatal |-> FALSE, start |-> 0]
           [] ckpt.state = "record"  -> [fatal |-> FALSE, start |-> ckpt.last_processed - 1]
    ELSE [fatal |-> FALSE, start |-> 0]

\* "Setup checkpoint": with --resume and an existing checkpoint file,
\* json.load raises on a file that is not JSON (the exception reaches
\* main, which exits 1); otherwise checkpoint.get('last_processed', 0).
ResolveStart(r, ckpt) ==
    IF r /\ ckpt.state # "absent"
    THEN CASE ckpt.state = "partial" -> [fatal |-> TRUE,  start |-> 0]
           [] ckpt.state = "nokey"   -> [fatal |-> FALSE, start |-> 0]
           [] ckpt.state = "record"  -> [fatal |-> FALSE, start |-> ckpt.last_processed]
    ELSE [fatal |-> FALSE, start |-> 0]

\* (Variant: processed starts at 0 on a resumed run too.)
RebuildStatsProcessedZero(table, start) ==
    [total     |-> Len(ValidIndices(Addresses(table))),
     processed |-> 0,
     success   |-> IF start > 0 THEN CountStatus(table, "success") ELSE 0,
     failed    |-> IF start > 0 THEN CountStatus(table, "failed") ELSE 0]

\* stats = {...}; "if start_idx > 0: Count existing successes".
RebuildStats(table, start) ==
    [total     |-> Len(ValidIndices(Addresses(table))),
     processed |-> start,
     success   |-> IF start > 0 THEN CountStatus(table, "success") ELSE 0,
     failed    |-> IF start > 0 THEN CountStatus(table, "failed") ELSE 0]

\* The try block after geocode returned.
OnSuccess(table, idx, res) ==
    [table EXCEPT ![idx].latitude = res.lat,
                  ![idx].longitude = res.lng,
                  ![idx].geocode_status = "success",
                  ![idx].geocode_address = res.formatted]

\* (Variant: the except block also clears the coordinates.)
OnFailureClearsCoordinates(table, idx) ==
    [table EXCEPT ![idx].geocode_status = "failed",
                  ![idx].geocode_address = None,
                  ![idx].latitude = None,
                  ![idx].longitude = None]

\* The except block.
OnFailure(table, idx) ==
    [table EXCEPT ![idx].geocode_status = "failed",
                  ![idx].geocode_address = None]

\* (Variant: "except ValueError": only the errors the providers raise
\* themselves are caught.)
CaughtValueErrorOnly(exc) == exc = "ValueError"

\* "except Exception as e": every exception geocode raises is caught.
Caught(exc) == exc # "none"

\* (Variant: the test is on i, not on i + 1.)
CheckpointDueOnIndex(n, chunk) == (n - 1) % chunk = 0

\* "if (i + 1) % self.chunk_size == 0"
CheckpointDue(n, chunk) == n % chunk = 0

\* (Variant: the checkpoint file is written before the table.)
SaveAfterCheckpointFirst(step) ==
    CASE step = "entry" -> "save_ckpt"
      [] step = "ckpt"  -> "save_table"
      [] step = "table" -> "loop"

\* The order of _save_checkpoint: df.to_csv(output_file), then the
\* checkpoint file, then back to the loop.
SaveAfter(step) ==
    CASE step = "entry" -> "save_table"
      [] step = "table" -> "save_ckpt"
      [] step = "ckpt"  -> "loop"

\* (Variant: the raw row index idx is passed to _save_checkpoint.)
LastProcessedRawIndex(iv) == valid_indices[iv + 1] - 1

\* "self._save_checkpoint(df, output_file, i + 1)": the index argument.
LastProcessedArg(iv) == iv + 1

\* (Variant: the checkpoint is removed before the final save.)
FinalAfterRemoveFirst(step) ==
    CASE step = "entry" -> "remove_ckpt"
      [] step = "ckpt"  -> "final_table"
      [] step = "table" -> "summary"

\* The order after the loop: "Final save", "Remove checkpoint", "Print
\* final stats".
FinalAfter(step) ==
    CASE step = "entry" -> "final_table"
      [] step = "table" -> "remove_ckpt"
      [] step = "ckpt"  -> "summary"

\* What an iteration prints: in the try block, after a success,
\* "Progress: ..." when (i + 1) % 100 == 0; in the except block
\* "Error on row ..." when (i + 1) % 100 == 0.
Report(n, exc) ==
    IF n % ProgressEvery = 0
    THEN IF exc = "none" THEN "progress" ELSE "error"
    ELSE "none"

\* -------------------------------------------------------------- actions
\* An invocation up to the loop: load the CSV, build the addresses,
\* resolve the start, initialize the output columns and the statistics.
StartRun(r, c) ==
    /\ pc \in Ended
    /\ resume' = r
    /\ chunk_size' = c
    /\ calls' = <<>>
    /\ lastExc' = "none"
    /\ prior' = outFile
    /\ written' = <<>>
    /\ printed' = "none"
    /\ UNCHANGED <<input, outFile, ckptFile, limiterVars, builderVars>>
    /\ \E readOK \in BOOLEAN :
         LET rs == ResolveStart(r, ckptFile)
             frame == InitColumns(input)
         IN  IF ~readOK \/ rs.fatal
             THEN /\ pc' = "fatal"
                  /\ err' = IF ~readOK THEN "read_csv" ELSE "corrupt_checkpoint"
                  /\ df' = input
                  /\ start_idx' = 0
                  /\ i' = 0
                  /\ stats' = NoStats
             ELSE /\ pc' = "loop"
                  /\ err' = "none"
                  /\ df' = frame
                  /\ start_idx' = rs.start
                  /\ i' = rs.start
                  /\ stats' = RebuildStats(frame, rs.start)

\* One iteration of the loop, up to the checkpoint test.
ProcessRow ==
    /\ pc = "loop"
    /\ i < Len(valid_indices)
    /\ \E resp \in Responses :
         LET idx == valid_indices[i + 1]
             res == Geocode(resp)
         IN  /\ calls' = Append(calls, i)
             /\ lastExc' = res.exc
             /\ printed' = IF res.exc = "none" \/ Caught(res.exc)
                            THEN Report(i + 1, res.exc) ELSE "none"
             /\ IF res.exc = "none"
                THEN /\ df' = OnSuccess(df, idx, res)
                     /\ stats' = [stats EXCEPT !.success = @ + 1, !.processed = i + 1]
                     /\ err' = err
                     /\ pc' = IF CheckpointDue(i + 1, chunk_size)
                              THEN SaveAfter("entry") ELSE "loop"
                ELSE IF Caught(res.exc)
                THEN /\ df' = OnFailure(df, idx)
                     /\ stats' = [stats EXCEPT !.failed = @ + 1, !.processed = i + 1]
                     /\ err' = err
                     /\ pc' = IF CheckpointDue(i + 1, chunk_size)
                              THEN SaveAfter("entry") ELSE "loop"
                ELSE /\ df' = df
                     /\ stats' = stats
                     /\ err' = "uncaught"
                     /\ pc' = "fatal"
             /\ i' = IF pc' = "loop" THEN i + 1 ELSE i
    /\ UNCHANGED <<input, outFile, ckptFile, resume, chunk_size, start_idx, prior,
                   written, limiterVars, builderVars>>

\* _save_checkpoint: df.to_csv opens the output file for writing ...
SaveOpenTable ==
    /\ pc = "save_table"
    /\ outFile' = TruncatedTable
    /\ pc' = "save_table_w"
    /\ UNCHANGED <<input, ckptFile, err, resume, chunk_size, df, start_idx, i,
                   stats, calls, lastExc, prior,
                   written, printed, limiterVars, builderVars>>

\* ... and writes the whole frame. (The loop moves to the next i when
\* _save_checkpoint returns.)
SaveWriteTable ==
    /\ pc = "save_table_w"
    /\ outFile' = WrittenTable(df)
    /\ pc' = SaveAfter("table")
    /\ i' = IF pc' = "loop" THEN i + 1 ELSE i
    /\ UNCHANGED <<input, ckptFile, err, resume, chunk_size, df, start_idx,
                   stats, calls, lastExc, prior,
                   written, printed, limiterVars, builderVars>>

\* open(self.checkpoint_file, 'w') truncates the checkpoint file ...
SaveOpenCheckpoint ==
    /\ pc = "save_ckpt"
    /\ ckptFile' = PartialCheckpoint
    /\ pc' = "save_ckpt_w"
    /\ UNCHANGED <<input, outFile, err, resume, chunk_size, df, start_idx, i,
                   stats, calls, lastExc, prior,
                   written, printed, limiterVars, builderVars>>

\* ... and json.dump writes {last_processed: i + 1, timestamp}.
SaveDumpCheckpoint ==
    /\ pc = "save_ckpt_w"
    /\ ckptFile' = CheckpointRecord(LastProcessedArg(i))
    /\ written' = Append(written, LastProcessedArg(i))
    /\ pc' = SaveAfter("ckpt")
    /\ i' = IF pc' = "loop" THEN i + 1 ELSE i
    /\ UNCHANGED <<input, outFile, err, resume, chunk_size, df, start_idx,
                   stats, calls, lastExc, prior, printed, limiterVars, builderVars>>

\* The range is exhausted.
LoopExit ==
    /\ pc = "loop"
    /\ i >= Len(valid_indices)
    /\ pc' = FinalAfter("entry")
    /\ UNCHANGED <<input, outFile, ckptFile, err, resume, chunk_size, df,
                   start_idx, i, stats, calls, lastExc, prior,
                   written, printed, limiterVars, builderVars>>

\* "Final save": df.to_csv(output_file) opens ...
FinalOpenTable ==
    /\ pc = "final_table"
    /\ outFile' = TruncatedTable
    /\ pc' = "final_table_w"
    /\ UNCHANGED <<input, ckptFile, err, resume, chunk_size, df, start_idx, i,
                   stats, calls, lastExc, prior,
                   written, printed, limiterVars, builderVars>>

\* ... and writes.
FinalWriteTable ==
    /\ pc = "final_table_w"
    /\ outFile' = WrittenTable(df)
    /\ pc' = FinalAfter("table")
    /\ UNCHANGED <<input, ckptFile, err, resume, chunk_size, df, start_idx, i,
                   stats, calls, lastExc, prior,
                   written, printed, limiterVars, builderVars>>

\* "Remove checkpoint": os.remove when the file exists.
RemoveCheckpoint ==
    /\ pc = "remove_ckpt"
    /\ ckptFile' = IF ckptFile.state # "absent" THEN NoCheckpoint ELSE ckptFile
    /\ pc' = FinalAfter("ckpt")
    /\ UNCHANGED <<input, outFile, err, resume, chunk_size, df, start_idx, i,
                   stats, calls, lastExc, prior,
                   written, printed, limiterVars, builderVars>>

\* "Print final stats": the percentages divide by stats['total']; with no
\* valid address the two lines before them are printed, then
\* ZeroDivisionError reaches main, which prints it and exits 1.
Summary ==
    /\ pc = "summary"
    /\ IF stats.total = 0
       THEN pc' = "fatal" /\ err' = "ZeroDivisionError" /\ printed' = "summary_head"
       ELSE pc' = "done" /\ err' = err /\ printed' = "summary"
    /\ UNCHANGED <<input, outFile, ckptFile, resume, chunk_size, df, start_idx,
                   i, stats, calls, lastExc, prior, written, limiterVars, builderVars>>

\* KeyboardInterrupt at any point of process_csv: main prints and exits;
\* the files stay as they are, the memory of the process is gone.
Interrupt ==
    /\ pc \in Running
    /\ pc' = "interrupted"
    /\ df' = input
    /\ stats' = NoStats
    /\ i' = 0
    /\ start_idx' = 0
    /\ calls' = <<>>
    /\ lastExc' = "none"
    /\ written' = <<>>
    /\ printed' = "none"
    /\ UNCHANGED <<input, outFile, ckptFile, err, resume, chunk_size, prior,
                   limiterVars, builderVars>>

Next ==
    \/ \E r \in BOOLEAN, c \in 1..MaxChunk : StartRun(r, c)
    \/ ProcessRow
    \/ SaveOpenTable
    \/ SaveWriteTable
    \/ SaveOpenCheckpoint
    \/ SaveDumpCheckpoint
    \/ LoopExit
    \/ FinalOpenTable
    \/ FinalWriteTable
    \/ RemoveCheckpoint
    \/ Summary
    \/ Interrupt

Spec == Init /\ [][Next]_vars

\* The bulk processor is left aside in the specifications of the rate
\* limiter and of the address builder.
MainParked ==
    /\ input = <<>>
    /\ outFile = AbsentFile
    /\ ckptFile = NoCheckpoint
    /\ pc = "parked"
    /\ err = "none"
    /\ resume = FALSE
    /\ chunk_size = DefaultChunkSize
    /\ df = <<>>
    /\ start_idx = 0
    /\ i = 0
    /\ stats = NoStats
    /\ calls = <<>>
    /\ lastExc = "none"
    /\ prior = AbsentFile
    /\ written = <<>>
    /\ printed = "none"

\* ------------------------------------------------------ the rate limiter
\* Time is counted in ticks; rate_limit_delay is RateDelay ticks.
RateDelay == 2
MaxClock == 8

\* (Variant: the sleep is one tick short.)
SleepForOneShort(e) == RateDelay - e - 1

\* "time.sleep(self.rate_limit_delay - elapsed)"
SleepFor(e) == RateDelay - e

\* The provider is constructed with last_request_time = 0, at a time that
\* is at least rate_limit_delay after the epoch.
InitRate ==
    /\ MainParked
    /\ BuilderParked
    /\ clock = RateDelay
    /\ last_request_time = 0
    /\ rl_pc = "caller"
    /\ elapsed = 0
    /\ wake_at = 0
    /\ returns = <<>>

\* Time passes, wherever the caller or the call is.
Tick ==
    /\ clock < MaxClock
    /\ clock' = clock + 1
    /\ UNCHANGED <<last_request_time, rl_pc, elapsed, wake_at, returns,
                   mainVars, builderVars>>

\* "elapsed = time.time() - self.last_request_time"
RateEnter ==
    /\ rl_pc = "caller"
    /\ elapsed' = clock - last_request_time
    /\ rl_pc' = "test"
    /\ UNCHANGED <<clock, last_request_time, wake_at, returns, mainVars, builderVars>>

\* "if elapsed < self.rate_limit_delay: time.sleep(...)": the sleep ends
\* no earlier than its duration after it was called.
RateSleep ==
    /\ rl_pc = "test"
    /\ elapsed < RateDelay
    /\ wake_at' = clock + SleepFor(elapsed)
    /\ rl_pc' = "sleeping"
    /\ UNCHANGED <<clock, last_request_time, elapsed, returns, mainVars, builderVars>>

RateNoSleep ==
    /\ rl_pc = "test"
    /\ ~(elapsed < RateDelay)
    /\ rl_pc' = "stamp"
    /\ UNCHANGED <<clock, last_request_time, elapsed, wake_at, returns,
                   mainVars, builderVars>>

RateWake ==
    /\ rl_pc = "sleeping"
    /\ clock >= wake_at
    /\ rl_pc' = "stamp"
    /\ UNCHANGED <<clock, last_request_time, elapsed, wake_at, returns,
                   mainVars, builderVars>>

\* "self.last_request_time = time.time()", and the call returns; returns
\* keeps the times of the last two returns.
RateStamp ==
    /\ rl_pc = "stamp"
    /\ last_request_time' = clock
    /\ returns' = IF returns = <<>> THEN <<clock>>
                  ELSE <<returns[Len(returns)], clock>>
    /\ rl_pc' = "caller"
    /\ UNCHANGED <<clock, elapsed, wake_at, mainVars, builderVars>>

NextRate ==
    \/ Tick
    \/ RateEnter
    \/ RateSleep
    \/ RateNoSleep
    \/ RateWake
    \/ RateStamp

SpecRate == InitRate /\ [][NextRate]_vars

\* --------------------------------------------------- the address builder
\* The cells of a line of the input file, as text; "" is an empty cell.
ColumnNames == {"address", "street", "city", "state", "zip"}
CellTexts ==
    [address : {"", "1 Main St"},
     street  : {"", "10 Elm"},
     city    : {"", "Metropolis"},
     state   : {"", "NY", "NA"},
     zip     : {"", "00001", "12345"}]

DigitTexts == {"00001", "12345"}
NaTexts == {"", "NA"}     \* among the default na_values of pd.read_csv
ColumnRests == {"text", "digits", "digits_and_empty"}

\* str() of the integer a text of digits is parsed to.
IntText(text) == IF text = "00001" THEN "1" ELSE text

\* "df = pd.read_csv(input_file)" and then "str(row[col])": a cell that is
\* empty or an NA marker is NaN; a cell of digits is text when the column
\* holds text elsewhere, an integer when the column holds digits only, a
\* float when the column also has empty cells.
ReadCell(text, rest) ==
    IF text \in NaTexts THEN None
    ELSE IF text \in DigitTexts /\ rest = "digits" THEN IntText(text)
    ELSE IF text \in DigitTexts /\ rest = "digits_and_empty"
         THEN IntText(text) \o ".0"
    ELSE text

RECURSIVE Join(_)
\* "', '.join(parts)"
Join(parts) ==
    IF Len(parts) = 1 THEN parts[1]
    ELSE parts[1] \o ", " \o Join(Tail(parts))

\* "parts = []" and the four "if ..._column and pd.notna(...)".
Parts(cells, cfg) ==
    SelectSeq(<<IF "street" \in cfg THEN cells.street ELSE None,
                IF "city" \in cfg THEN cells.city ELSE None,
                IF "state" \in cfg THEN cells.state ELSE None,
                IF "zip" \in cfg THEN cells.zip ELSE None>>,
              LAMBDA v : v # None)

\* One pass of "for idx, row in df.iterrows()".
BuildQuery(cells, cfg) ==
    IF "address" \in cfg /\ cells.address # None
    THEN cells.address
    ELSE IF cfg \cap {"street", "city", "state", "zip"} # {}
    THEN IF Parts(cells, cfg) # <<>> THEN Join(Parts(cells, cfg)) ELSE None
    ELSE None

\* The row as the loaded frame holds it.
LoadedRow(texts, rest) == [c \in ColumnNames |-> ReadCell(texts[c], rest)]

InitAddr ==
    /\ MainParked
    /\ LimiterParked
    /\ row \in CellTexts
    /\ columns \in SUBSET ColumnNames
    /\ column_rest \in ColumnRests
    /\ address = None
    /\ ab_pc = "row"

BuildRow ==
    /\ ab_pc = "row"
    /\ address' = BuildQuery(LoadedRow(row, column_rest), columns)
    /\ ab_pc' = "built"
    /\ UNCHANGED <<row, columns, column_rest, mainVars, limiterVars>>

NextAddr == BuildRow

SpecAddr == InitAddr /\ [][NextAddr]_vars

\* --------------------------------------------------- the progress report
\* The loop on a table of ReportTotal valid addresses, with the default
\* chunk size: the counters and what each iteration prints.
ReportTotal == 2 * ProgressEvery

InitReport ==
    /\ MainParked
    /\ LimiterParked
    /\ BuilderParked

StartReportRun ==
    /\ pc = "parked"
    /\ pc' = "loop"
    /\ stats' = [NoStats EXCEPT !.total = ReportTotal]
    /\ UNCHANGED <<input, outFile, ckptFile, err, resume, chunk_size, df, start_idx,
                   i, calls, lastExc, prior, written, printed, limiterVars, builderVars>>

\* One iteration: the try/except, "stats['processed'] = i + 1", the
\* checkpoint test.
ReportRow ==
    /\ pc = "loop"
    /\ i < stats.total
    /\ \E resp \in {"found", "empty"} :
         LET res == Geocode(resp)
         IN  /\ lastExc' = res.exc
             /\ printed' = Report(i + 1, res.exc)
             /\ stats' = IF res.exc = "none"
                         THEN [stats EXCEPT !.success = @ + 1, !.processed = i + 1]
                         ELSE [stats EXCEPT !.failed = @ + 1, !.processed = i + 1]
             /\ pc' = IF CheckpointDue(i + 1, chunk_size)
                      THEN SaveAfter("entry") ELSE "loop"
             /\ i' = IF pc' = "loop" THEN i + 1 ELSE i
    /\ UNCHANGED <<input, outFile, ckptFile, err, resume, chunk_size, df, start_idx,
                   calls, prior, written, limiterVars, builderVars>>

NextReport ==
    \/ StartReportRun
    \/ ReportRow

SpecReport == InitReport /\ [][NextReport]_vars

\* ------------------------------------------------------ reading a file
\* The row idx of a table file carries a result.
RowRecorded(file, idx) ==
    /\ file.exists
    /\ idx \in DOMAIN file.rows
    /\ file.rows[idx].geocode_status \in {"success", "failed"}

CountFile(file, status) ==
    Cardinality({r \in DOMAIN file.rows : file.rows[r].geocode_status = status})

Positions == 1..Len(valid_indices)

\* The invocation resumed from a checkpoint record (a record holds i + 1,
\* which is never 0).
Resumed == resume /\ start_idx > 0

\* --------------------------------------------------------------- claims

\* C1: whenever the checkpoint file holds last_processed = k, the output
\* table on disk records success or failed for each of the first k entries
\* of the valid-query index sequence.
C1_CheckpointCoveredByTable ==
    ckptFile.state = "record" =>
        \A p \in Positions :
            p <= ckptFile.last_processed => RowRecorded(outFile, valid_indices[p])

\* C2: when a run resumed from checkpoint index k completes, every row of
\* the valid-query index sequence has a result in the output table: below k
\* the result the earlier run persisted, from k onward the resumed run's.
C2_ResumedRunCompletesTable ==
    (pc = "done" /\ Resumed) =>
        \A p \in Positions :
            LET idx == valid_indices[p]
            IN  /\ RowRecorded(outFile, idx)
                /\ p <= start_idx =>
                     /\ RowRecorded(prior, idx)
                     /\ outFile.rows[idx] = prior.rows[idx]
                /\ p > start_idx => outFile.rows[idx] = df[idx]

\* A step of ProcessRow: the only steps that lengthen calls.
CallStep == Len(calls') = Len(calls) + 1

\* The first step of an invocation: the only steps taken from an ended one.
StartStep == pc \in Ended /\ vars' # vars

\* The two parts of C3: where the resumed run starts, and what it calls.
C3_StartsAtCheckpoint ==
    (StartStep /\ resume' /\ ckptFile.state = "record" /\ err' # "read_csv") =>
        /\ pc' = "loop"
        /\ start_idx' = ckptFile.last_processed
        /\ i' = ckptFile.last_processed

C3_CallsInOrder ==
    (pc \in Running \cup {"done"}) =>
        /\ \A n \in 1..Len(calls) : calls[n] = start_idx + (n - 1)
        /\ \A n \in 1..Len(calls) : calls[n] < Len(valid_indices)
        /\ pc \notin {"loop", "save_table", "save_table_w", "save_ckpt", "save_ckpt_w"} =>
             \A p \in 0..(Len(valid_indices) - 1) :
                 p >= start_idx => \E n \in 1..Len(calls) : calls[n] = p

\* C3: a run resumed from a checkpoint with last_processed = k (its input
\* table read) starts at position k; the positions it has passed to geocode are k, k+1, ... in
\* increasing order, each once, none below k; and once the loop is over
\* every position from k to the end has been passed.
C3_ResumeCallsExactlyFromK ==
    [](C3_CallsInOrder) /\ [][C3_StartsAtCheckpoint]_vars

\* Witness of C3: a run resumed from k = 1 has finished after calling the
\* provider for positions 1 and 2 and for nothing else.
C3_Witness ==
    pc = "done" /\ resume /\ start_idx = 1 /\ calls = <<1, 2>>

\* C4: on a run resumed from k > 0 the success and failed counters start
\* as the counts of the geocode_status column of the output table the
\* earlier run persisted, and when the run is done they equal the counts of
\* success and of failed in the final output table.
C4_CountersMatchOutputTable ==
    /\ (pc = "loop" /\ Resumed /\ calls = <<>>) =>
          /\ stats.success = CountFile(prior, "success")
          /\ stats.failed = CountFile(prior, "failed")
    /\ (pc = "done" /\ Resumed) =>
          /\ stats.success = CountFile(outFile, "success")
          /\ stats.failed = CountFile(outFile, "failed")

\* The rows without a Query, and the rows this invocation has called the
\* provider for.
AbsentRows == {r \in Rows : Addresses(input)[r] = None}
CalledRows == {valid_indices[calls[n] + 1] : n \in 1..Len(calls)}

\* C5: a row whose Query is absent is not in total, is never passed to the
\* provider, has none of its four output columns written, and is counted in
\* neither success nor failed: each counter is accounted for by the rows
\* that have a Query (those called by this run with that outcome, plus those
\* already carrying that status when the run started).
C5_AbsentQueryRowsUntouched ==
    (pc \in Running \cup {"done"}) =>
        /\ stats.total = NumRows - Cardinality(AbsentRows)
        /\ CalledRows \cap AbsentRows = {}
        /\ \A r \in AbsentRows : df[r] = InitColumns(input)[r]
        /\ \A st \in {"success", "failed"} :
             LET counter == IF st = "success" THEN stats.success ELSE stats.failed
                 called  == Cardinality({r \in CalledRows : df[r].geocode_status = st})
                 carried == Cardinality({r \in Rows \ AbsentRows :
                                           InitColumns(input)[r].geocode_status = st})
             IN  counter <= called + carried

\* What a provider call leaves in its row.
C6_RowOutcome ==
    CallStep =>
        LET idx == valid_indices[i + 1]
            res == Geocode("found")
        IN  IF lastExc' = "none"
            THEN /\ df'[idx].latitude = res.lat
                 /\ df'[idx].longitude = res.lng
                 /\ df'[idx].geocode_address = res.formatted
                 /\ df'[idx].geocode_status = "success"
            ELSE /\ df'[idx].geocode_status = "failed"
                 /\ df'[idx].geocode_address = None
                 /\ df'[idx].latitude = df[idx].latitude
                 /\ df'[idx].longitude = df[idx].longitude

\* C6: for the row of a provider call: when geocode returned, latitude,
\* longitude and geocode_address are the result's and geocode_status is
\* success; when it raised, geocode_status is failed, geocode_address is
\* absent and latitude and longitude are what they were before the call.
C6_SuccessSetsAllFailureKeepsCoordinates == [][C6_RowOutcome]_vars

\* Witness of C6: a row that carried coordinates and an address has just
\* failed: its coordinates are the carried ones, its address is gone.
C6_Witness ==
    /\ pc = "loop" /\ Len(calls) >= 1 /\ lastExc # "none"
    /\ LET idx == valid_indices[calls[Len(calls)] + 1]
       IN  /\ input[idx].geocode_address = "fmt_old"
           /\ df[idx].latitude = "lat_old"
           /\ df[idx].geocode_address = None
           /\ df[idx].geocode_status = "failed"

\* The two parts of C7: the step of a call that raised, and the call after.
C7_FailureStep ==
    (CallStep /\ lastExc' # "none") =>
        /\ pc' \in {"loop", "save_table"}
        /\ err' = "none"
        /\ df'[valid_indices[i + 1]].geocode_status = "failed"
        /\ stats'.failed = stats.failed + 1
        /\ stats'.processed = stats.processed + 1
        /\ pc' = "loop" => i' = i + 1

C7_AfterFailureNextIsCalled ==
    \A n \in 1..Len(calls) :
        (pc \in {"final_table", "final_table_w", "remove_ckpt", "summary", "done"}
           /\ calls[n] + 1 < Len(valid_indices))
        => (n < Len(calls) /\ calls[n + 1] = calls[n] + 1)

\* C7: a provider call that raises, whatever it raises, does not end the
\* run: the row is failed, failed and processed grow by one, and the run is
\* at the next position of the loop (or in the checkpoint save before it).
C7_FailureNeverAborts ==
    [][C7_FailureStep]_vars /\ [](C7_AfterFailureNextIsCalled)

\* Witness of C7: the first call of the run raised and its row is failed,
\* the provider was called for the next position, where it raised KeyError
\* (a malformed response), and the run is in the loop with a row to go.
C7_Witness ==
    /\ Len(calls) = 2 /\ calls[2] = calls[1] + 1
    /\ lastExc = "KeyError" /\ pc = "loop"
    /\ df[valid_indices[calls[1] + 1]].geocode_status = "failed"
    /\ input[valid_indices[calls[1] + 1]].geocode_status = NoCol
    /\ stats.failed = 2
    /\ i < Len(valid_indices)

\* The start of a resumed run on a corrupt checkpoint file.
C8_CorruptStep ==
    (StartStep /\ resume' /\ ckptFile.state \in {"partial", "nokey"}) =>
        /\ pc' = "fatal"
        /\ calls' = <<>>
        /\ outFile' = outFile

\* C8: a run started with --resume on a checkpoint file that does not
\* yield a record with a last-processed index (not JSON, or JSON without
\* last_processed) ends with a fatal error, with no provider call and no
\* write to the output table; it does not start at offset 0.
C8_CorruptCheckpointIsFatal == [][C8_CorruptStep]_vars

\* C9: a run started without --resume, or with --resume and no checkpoint
\* file, is at offset 0 and, before its first provider call, has the four
\* output columns absent on every row.
C9_FreshRunColumnsAbsent ==
    (pc = "loop" /\ calls = <<>> /\ (~resume \/ ckptFile.state = "absent")) =>
        /\ start_idx = 0 /\ i = 0
        /\ \A r \in Rows :
             /\ df[r].latitude = None
             /\ df[r].longitude = None
             /\ df[r].geocode_status = None
             /\ df[r].geocode_address = None

\* A step of _save_checkpoint that changes the checkpoint file.
C10_SaveStep ==
    (pc \in {"save_table", "save_table_w", "save_ckpt", "save_ckpt_w"}
       /\ ckptFile' # ckptFile) =>
        /\ outFile = WrittenTable(df)
        /\ outFile' = outFile
        /\ ckptFile'.state = "record" => ckptFile'.last_processed = stats.processed

\* C10: in every checkpoint save the table is written first: whenever the
\* save touches the checkpoint file (opening it, writing the record), the
\* output table on disk is already the full current table, and the record
\* written holds the processed count.
C10_TableBeforeCheckpoint == [][C10_SaveStep]_vars

\* Witness of C10: a save has just completed: the checkpoint holds the
\* processed count and the table on disk holds that row's result.
C10_Witness ==
    /\ pc = "loop" /\ Len(calls) >= 1
    /\ ckptFile = CheckpointRecord(stats.processed)
    /\ stats.processed = calls[Len(calls)] + 1
    /\ outFile = WrittenTable(df)
    /\ prior # outFile

\* C11: the checkpoint file is never observable as empty or partly written:
\* it is absent or holds a complete record.
C11_CheckpointNeverPartial ==
    ckptFile.state # "partial"

\* The step that removes the checkpoint file.
C12_RemoveStep ==
    (ckptFile.state # "absent" /\ ckptFile'.state = "absent") =>
        /\ pc = "remove_ckpt"
        /\ outFile = WrittenTable(df)
        /\ outFile' = outFile

\* C12: after the loop the full table is written to the output path before
\* the checkpoint file is removed; the file is removed only when that write
\* has completed; and when a run is done the checkpoint file is absent.
C12_FinalTableBeforeClear ==
    /\ [][C12_RemoveStep]_vars
    /\ [](pc \in {"summary", "done"} =>
            (ckptFile.state = "absent" /\ outFile = WrittenTable(df)))

\* Witness of C12: a run that checkpointed is done: the checkpoint it wrote
\* is gone and the output table is the final table.
C12_Witness ==
    /\ pc = "done" /\ Len(written) >= 1
    /\ ckptFile = NoCheckpoint
    /\ outFile = WrittenTable(df)

\* C13: a run that is not interrupted and does not fail to read its input
\* (nor stops on an unreadable checkpoint) ends Done with the final summary
\* printed: it never ends otherwise.
C13_RunEndsDoneWithSummary ==
    /\ (pc = "fatal" => err \in {"read_csv", "corrupt_checkpoint"})
    /\ (pc = "done" => printed = "summary")

\* C14: every last_processed value a run writes is a position count of the
\* valid-query index sequence, between 1 and total; the values a run
\* writes, starting from the index it resumed from, never decrease.
C14_CheckpointIndexIsPositionMonotone ==
    \A n \in 1..Len(written) :
        /\ written[n] \in 1..Len(valid_indices)
        /\ written[n] >= start_idx
        /\ n > 1 => written[n - 1] <= written[n]
        /\ (n = Len(written) /\ pc \in Running /\ ckptFile.state = "record")
              => ckptFile.last_processed = written[n]

\* Witness of C14: the first row has no address, so raw row indices and
\* positions differ; a run resumed from 1 has written 2.
C14_Witness ==
    /\ Addresses(input)[1] = None
    /\ resume /\ start_idx = 1
    /\ written = <<2>>
    /\ ckptFile = CheckpointRecord(2)

\* C17: when a run is done, fresh or resumed, processed equals total, the
\* length of the valid-query index sequence.
C17_DoneProcessedEqualsTotal ==
    pc = "done" =>
        /\ stats.total = Len(valid_indices)
        /\ stats.processed = stats.total

\* Witness of C17: a run resumed from the checkpoint at 1 is done with
\* three processed.
C17_Witness ==
    pc = "done" /\ Resumed /\ start_idx = 1 /\ stats.processed = 3

\* The last checkpoint of the run: the last index it has written, or the
\* index it started from.
LastCheckpoint ==
    IF written # <<>> THEN written[Len(written)] ELSE start_idx

\* The save is invoked after an entry exactly when the processed count has
\* become a multiple of chunk_size, for either outcome of the entry.
C18_SaveIffMultiple ==
    CallStep =>
        /\ stats'.processed > 0
        /\ (pc' = "save_table") <=> (stats'.processed % chunk_size = 0)
        /\ pc' \in {"save_table", "loop"}

\* The save writes the processed count as last_processed.
C18_SaveWritesProcessed ==
    Len(written') = Len(written) + 1 =>
        /\ written'[Len(written')] = stats.processed
        /\ ckptFile' = CheckpointRecord(stats.processed)
        /\ stats.processed % chunk_size = 0

\* C18, as stated: the save is invoked exactly after the entries at which
\* the processed count becomes a positive multiple of chunk_size, with that
\* count as last_processed, and at every point of the run fewer than
\* chunk_size processed entries lie beyond the last checkpoint.
C18_FewerThanChunkBeyondCheckpoint ==
    /\ [][C18_SaveIffMultiple /\ C18_SaveWritesProcessed]_vars
    /\ [](pc \in Running => stats.processed - LastCheckpoint < chunk_size)

\* C18, amended: the same, with at most chunk_size processed entries beyond
\* the last checkpoint the run completed (chunk_size of them while the save
\* of the last one is under way).
C18_AtMostChunkBeyondCheckpoint ==
    /\ [][C18_SaveIffMultiple /\ C18_SaveWritesProcessed]_vars
    /\ [](pc \in Running =>
            /\ stats.processed - LastCheckpoint <= chunk_size
            /\ (stats.processed - LastCheckpoint = chunk_size
                  => pc \in {"save_table", "save_table_w", "save_ckpt", "save_ckpt_w"}))

\* Witness of C18: with chunk_size 2, the second entry has failed and the
\* save is under way, two processed entries beyond the start.
C18_Witness ==
    /\ chunk_size = 2 /\ pc = "save_ckpt_w" /\ lastExc # "none"
    /\ stats.processed = 2 /\ written = <<>> /\ start_idx = 0

\* C20: after every processed entry and when the run is done, in fresh and
\* in resumed runs, success + failed = processed and processed <= total.
C20_CountersAddUp ==
    (pc \in Running \cup {"done"} /\ (calls # <<>> \/ pc = "done")) =>
        /\ stats.success + stats.failed = stats.processed
        /\ stats.processed <= stats.total

\* C15: consecutive returns of _rate_limit are at least rate_limit_delay
\* apart, whatever time the caller spends between the calls, and the call
\* sets last_request_time to the time at which it returns, after waking.
C15_ReturnStep ==
    returns' # returns =>
        /\ rl_pc = "stamp"
        /\ last_request_time' = clock
        /\ returns'[Len(returns')] = clock
        /\ clock >= wake_at

C15_ReturnsSeparatedByDelay ==
    /\ [][C15_ReturnStep]_vars
    /\ [](Len(returns) = 2 => returns[2] - returns[1] >= RateDelay)
    /\ [](returns # <<>> => last_request_time = returns[Len(returns)])

\* Witness of C15: a call that came early, slept, and returned exactly
\* rate_limit_delay after the return before it.
C15_Witness ==
    /\ Len(returns) = 2
    /\ returns[2] - returns[1] = RateDelay
    /\ elapsed < RateDelay
    /\ wake_at = returns[2]
    /\ rl_pc = "caller"

\* The query the description gives for a line in component mode: the texts
\* of the configured components that are not empty, in the order street,
\* city, state, zip, joined by ", "; absent when there is none.
PresentTexts(texts, cfg) ==
    SelectSeq(<<IF "street" \in cfg THEN texts.street ELSE "",
                IF "city" \in cfg THEN texts.city ELSE "",
                IF "state" \in cfg THEN texts.state ELSE "",
                IF "zip" \in cfg THEN texts.zip ELSE "">>,
              LAMBDA v : v # "")

ComponentMode == "address" \notin columns /\ columns # {}

\* C16: in component mode the query is the present, non-empty values of
\* the configured components in the order street, city, state, postal,
\* joined by ", "; it is absent exactly when no configured component is
\* present; street "10 Elm", city "Metropolis", no state, postal "00001"
\* give "10 Elm, Metropolis, 00001".
C16_ComponentQueryIsJoin ==
    (ab_pc = "built" /\ ComponentMode) =>
        /\ (address = None) <=> (PresentTexts(row, columns) = <<>>)
        /\ PresentTexts(row, columns) # <<>>
              => address = Join(PresentTexts(row, columns))
        /\ (/\ columns = {"street", "city", "state", "zip"}
            /\ row.street = "10 Elm" /\ row.city = "Metropolis"
            /\ row.state = "" /\ row.zip = "00001")
              => address = "10 Elm, Metropolis, 00001"

\* C19: after every entry at which the processed count becomes a multiple
\* of 100 the progress report is printed, whether the entry succeeded or
\* failed.
C19_ProgressEveryHundred ==
    (pc = "loop" /\ stats.processed > 0 /\ stats.processed % ProgressEvery = 0)
        => printed = "progress"

====
